---- MODULE Spec2Model ----
(***************************************************************************)
(* Snapshot and subvolume engine of bcachefs (subvolume.c).                *)
(*                                                                         *)
(* The snapshots btree, the subvolumes btree and one snapshot-bearing      *)
(* btree of keys are the on-disk state; c->snapshots (the in-core table    *)
(* with the equiv field), the work item snapshot_delete_work, the          *)
(* reference count c->writes and the locals of the running                 *)
(* bch2_delete_dead_snapshots_work are the in-memory state.                *)
(*                                                                         *)
(* A foreground operation is one committed (or aborted) transaction and    *)
(* is one action.  The reclamation job commits one transaction per row or  *)
(* per key, so it is one action per iteration of each of its loops, and    *)
(* foreground operations interleave between them.                          *)
(***************************************************************************)
EXTENDS Integers, Sequences, FiniteSets, TLC

(* ------------------------------------------------------------------ *)
(* Bounds                                                             *)
(* ------------------------------------------------------------------ *)

\* Stands for U32_MAX: the largest snapshot id, the id of the root snapshot
\* of a formatted filesystem.
SnapIdMax == 5

\* Stands for SUBVOL_POS_MAX: the last slot of the subvolume id range.
SubvolMax == 3

\* Foreground transactions and mounts in one behaviour; the steps of the
\* reclamation job are not counted.
MaxOps == 5

SnapIds == 1..SnapIdMax

\* SUBVOL_POS_MIN is the first slot.
SubvolIds == 1..SubvolMax

\* The (inode, ro) arguments bch2_subvolume_create is called with.
CreateArgs == {<<100, FALSE>>, <<200, TRUE>>}

\* The root directory inode of the root subvolume.
RootInode == 4096

\* The snapshot-bearing btrees (btree_type_has_snapshots) and the
\* non-snapshot positions (inode:offset) keys are written at.
SnapshotBtrees == {1}
Positions == {1}

VARIABLES
    snapshots,      \* BTREE_ID_snapshots: id -> row
    subvolumes,     \* BTREE_ID_subvolumes: id -> row
    keys,           \* the snapshot-bearing btrees: set of [btree, pos, snapshot]
    cache,          \* c->snapshots: id -> snapshot_t
    pending,        \* snapshot_delete_work is queued
    writes,         \* references on c->writes held for reclamation
    job,            \* locals of bch2_delete_dead_snapshots_work
    hist,           \* what the running pass of the job started from
    ops,            \* committed foreground transactions and mounts so far
    probe           \* the last call of a function applied on its own, and its result

vars == <<snapshots, subvolumes, keys, cache, pending, writes, job, hist, ops, probe>>

(* ------------------------------------------------------------------ *)
(* Rows                                                               *)
(* ------------------------------------------------------------------ *)

\* An empty slot of the snapshots btree (k.k->type != KEY_TYPE_snapshot).
NoSnapshot ==
    [type |-> "deleted", parent |-> 0, children |-> <<0, 0>>, subvol |-> 0,
     SUBVOL |-> FALSE, DELETED |-> FALSE]

\* An empty slot of the subvolumes btree (bkey_deleted).
NoSubvolume ==
    [type |-> "deleted", snapshot |-> 0, inode |-> 0, RO |-> FALSE, SNAP |-> FALSE]

\* A zeroed slot of the radix tree.
NoSlot == [parent |-> 0, children |-> <<0, 0>>, subvol |-> 0, equiv |-> 0]

IsSnapshot(snaps, id) == id \in SnapIds /\ snaps[id].type = "snapshot"

IsSubvolume(subs, id) == id \in SubvolIds /\ subs[id].type = "subvolume"

SetMin(S) == CHOOSE x \in S : \A y \in S : x <= y

\* bch2_btree_iter_peek on the snapshots btree: the first row at or after
\* pos, 0 at the end of the btree.
PeekSnapshot(snaps, pos) ==
    LET S == {id \in SnapIds : id >= pos /\ snaps[id].type = "snapshot"}
    IN  IF S = {} THEN 0 ELSE SetMin(S)

(* ------------------------------------------------------------------ *)
(* In-core table                                                      *)
(* ------------------------------------------------------------------ *)

\* The slot of new's id takes new's parent, children and subvol; equiv is
\* left as the slot holds it.
bch2_mark_snapshot(ch, id, new) ==
    IF new.type = "snapshot"
    THEN [ch EXCEPT ![id].parent = new.parent,
                    ![id].children = new.children,
                    ![id].subvol = IF new.SUBVOL THEN new.subvol ELSE 0]
    ELSE [ch EXCEPT ![id].parent = 0, ![id].children = <<0, 0>>, ![id].subvol = 0]

\* The snapshots btree trigger at commit: every row the transaction wrote
\* or deleted is marked.
RECURSIVE mark_updates(_, _, _, _)
mark_updates(ch, old, new, id) ==
    IF id > SnapIdMax THEN ch
    ELSE mark_updates(IF old[id] # new[id] THEN bch2_mark_snapshot(ch, id, new[id]) ELSE ch,
                      old, new, id + 1)

\* snapshot_lookup: 0 and the row, or -ENOENT.
snapshot_lookup(snaps, id) ==
    IF IsSnapshot(snaps, id) THEN [ret |-> "OK", v |-> snaps[id]]
    ELSE [ret |-> "ENOENT", v |-> NoSnapshot]

\* snapshot_live without the test of DELETED: 1 for every row present.
snapshot_live_present(snaps, id) ==
    IF id = 0 THEN "0"
    ELSE LET r == snapshot_lookup(snaps, id)
         IN  IF r.ret # "OK" THEN r.ret ELSE "1"

\* snapshot_live: 0 for id 0, an error for a missing row, else !DELETED;
\* as 0, 1 or the error.
snapshot_live(snaps, id) ==
    IF id = 0 THEN "0"
    ELSE LET r == snapshot_lookup(snaps, id)
         IN  IF r.ret # "OK" THEN r.ret
             ELSE IF r.v.DELETED THEN "0" ELSE "1"

(* ------------------------------------------------------------------ *)
(* Snapshot node store                                                *)
(* ------------------------------------------------------------------ *)

\* Sets DELETED on the row; -ENOENT for a missing row; nothing for a row
\* that is already DELETED.
bch2_snapshot_node_set_deleted(snaps, id) ==
    IF ~IsSnapshot(snaps, id) THEN [ret |-> "ENOENT", snaps |-> snaps]
    ELSE IF snaps[id].DELETED THEN [ret |-> "OK", snaps |-> snaps]
    ELSE [ret |-> "OK", snaps |-> [snaps EXCEPT ![id].DELETED = TRUE]]

\* The children left as they are: what the row would hold without the swap().
children_as_written(ch) == ch

\* swap() of the children when children[0] < children[1].
normalize_children(ch) ==
    IF ch[1] < ch[2] THEN <<ch[2], ch[1]>> ELSE ch

\* The parent row left as it is: what it would hold if its pointer to id
\* were not cleared.
parent_keeps_child(p, id) == p

\* The parent row with its pointer to id cleared (left alone when it has
\* none) and its children normalized.
parent_without_child(p, id) ==
    LET cleared == IF p.children[1] = id THEN <<0, p.children[2]>>
                   ELSE IF p.children[2] = id THEN <<p.children[1], 0>>
                   ELSE p.children
    IN  [p EXCEPT !.children = normalize_children(cleared)]

\* A removal that reports success and removes nothing.
snapshot_node_delete_skipped(snaps, id) == [ret |-> "OK", snaps |-> snaps]

\* Removes the row of id and its parent's pointer to it.
bch2_snapshot_node_delete(snaps, id) ==
    IF ~IsSnapshot(snaps, id) THEN [ret |-> "ENOENT", snaps |-> snaps]
    ELSE LET parent_id == snaps[id].parent IN
         IF parent_id = 0
         THEN [ret |-> "OK", snaps |-> [snaps EXCEPT ![id] = NoSnapshot]]
         ELSE IF ~IsSnapshot(snaps, parent_id)
         THEN [ret |-> "ENOENT", snaps |-> snaps]
         ELSE [ret |-> "OK",
               snaps |-> [snaps EXCEPT
                             ![parent_id] = parent_without_child(snaps[parent_id], id),
                             ![id] = NoSnapshot]]

\* A new row: bkey_snapshot_init zeroes the value, then parent, subvol and
\* the SUBVOL flag are set.
new_snapshot(parent, subvol) ==
    [type |-> "snapshot", parent |-> parent, children |-> <<0, 0>>,
     subvol |-> subvol, SUBVOL |-> TRUE, DELETED |-> FALSE]

\* The slot after pos: the walk in the other direction, under which ids
\* would grow upwards.
next_slot(pos) == pos + 1

\* bch2_btree_iter_prev_slot: the slot before pos.
prev_slot(pos) == pos - 1

\* A loop that does not move the iterator between its iterations: every row
\* goes into the slot before pos.
alloc_snapids_one_slot(snaps, ch, pos, parent, snapshot_subvols, i, new_snapids) ==
    LET slot == prev_slot(pos) IN
    IF slot <= 0
    THEN [ret |-> "ENOSPC", snaps |-> snaps, cache |-> ch, new_snapids |-> new_snapids]
    ELSE LET n == new_snapshot(parent, snapshot_subvols[Len(snapshot_subvols)]) IN
         [ret |-> "OK", snaps |-> [snaps EXCEPT ![slot] = n],
          cache |-> bch2_mark_snapshot(ch, slot, n),
          new_snapids |-> [j \in 1..Len(snapshot_subvols) |-> slot]]

\* The loop over nr_snapids: bch2_btree_iter_prev_slot from pos, a new row
\* in the slot, bch2_mark_snapshot of it.  -ENOSPC at offset 0.
RECURSIVE alloc_snapids(_, _, _, _, _, _, _)
alloc_snapids(snaps, ch, pos, parent, snapshot_subvols, i, new_snapids) ==
    IF i > Len(snapshot_subvols)
    THEN [ret |-> "OK", snaps |-> snaps, cache |-> ch, new_snapids |-> new_snapids]
    ELSE LET slot == prev_slot(pos) IN
         IF slot <= 0
         THEN [ret |-> "ENOSPC", snaps |-> snaps, cache |-> ch, new_snapids |-> new_snapids]
         ELSE LET n == new_snapshot(parent, snapshot_subvols[i]) IN
              alloc_snapids([snaps EXCEPT ![slot] = n],
                            bch2_mark_snapshot(ch, slot, n),
                            slot, parent, snapshot_subvols, i + 1,
                            Append(new_snapids, slot))

\* The parent's children are the new ids; its SUBVOL flag is left as it is.
link_parent_keeps_subvol(p, new_snapids) ==
    [p EXCEPT !.children = <<new_snapids[1], new_snapids[2]>>]

\* The parent's children are the new ids and its SUBVOL flag is cleared.
link_parent(p, new_snapids) ==
    [p EXCEPT !.children = <<new_snapids[1], new_snapids[2]>>, !.SUBVOL = FALSE]

\* bch2_snapshot_node_create without the test of the parent's children:
\* a parent that has children is given the new ones.
snapshot_node_create_relink(snaps, ch, parent, snapshot_subvols) ==
    LET first == PeekSnapshot(snaps, 0) IN
    IF first = 0
    THEN [ret |-> "EINVAL", snaps |-> snaps, cache |-> ch, new_snapids |-> <<>>]
    ELSE LET a == alloc_snapids(snaps, ch, first, parent, snapshot_subvols, 1, <<>>) IN
         IF a.ret # "OK" \/ parent = 0 THEN a
         ELSE LET k == PeekSnapshot(a.snaps, parent) IN
              IF k = 0 THEN [a EXCEPT !.ret = "ENOENT"]
              ELSE [a EXCEPT !.snaps = [a.snaps EXCEPT ![k] = link_parent(@, a.new_snapids)]]

\* snapshot_subvols holds nr_snapids subvolume ids.  The result carries the
\* rows of the transaction, the in-core table (marked for every new row,
\* also when the transaction then fails) and the new ids.
\* An empty snapshots btree leaves the iterator at the end of the btree,
\* outside the snapshot key range, where bch2_snapshot_invalid rejects the
\* row ("bad pos"): -EINVAL.
bch2_snapshot_node_create(snaps, ch, parent, snapshot_subvols) ==
    LET first == PeekSnapshot(snaps, 0) IN
    IF first = 0
    THEN [ret |-> "EINVAL", snaps |-> snaps, cache |-> ch, new_snapids |-> <<>>]
    ELSE LET a == alloc_snapids(snaps, ch, first, parent, snapshot_subvols, 1, <<>>) IN
         IF a.ret # "OK" \/ parent = 0 THEN a
         ELSE LET k == PeekSnapshot(a.snaps, parent) IN
              IF k = 0 THEN [a EXCEPT !.ret = "ENOENT"]
              ELSE IF a.snaps[k].children[1] # 0 \/ a.snaps[k].children[2] # 0
              THEN [a EXCEPT !.ret = "EINVAL"]
              ELSE [a EXCEPT !.snaps = [a.snaps EXCEPT ![k] = link_parent(@, a.new_snapids)]]

(* ------------------------------------------------------------------ *)
(* Equivalence classes                                                *)
(* ------------------------------------------------------------------ *)

\* One iteration of the walk of bch2_snapshots_set_equiv: the row's equiv
\* is its single live child's equiv, else its own id.  A lookup error ends
\* the loop over the two children.
set_equiv_row(snaps, ch, id) ==
    LET child == snaps[id].children
        l0 == snapshot_live(snaps, child[1])
        l1 == snapshot_live(snaps, child[2])
        err0 == l0 \notin {"0", "1"}
        n0 == IF l0 = "1" THEN 1 ELSE 0
        n1 == IF ~err0 /\ l1 = "1" THEN 1 ELSE 0
        nr_live == n0 + n1
        live_idx == IF n1 = 1 THEN 2 ELSE 1
    IN  [ch EXCEPT ![id].equiv = IF nr_live = 1 THEN ch[child[live_idx]].equiv ELSE id]

\* The whole walk, in increasing id order from pos.
RECURSIVE bch2_snapshots_set_equiv(_, _, _)
bch2_snapshots_set_equiv(snaps, ch, pos) ==
    LET id == PeekSnapshot(snaps, pos) IN
    IF id = 0 THEN ch
    ELSE bch2_snapshots_set_equiv(snaps, set_equiv_row(snaps, ch, id), id + 1)

(* ------------------------------------------------------------------ *)
(* Scheduling of reclamation                                          *)
(* ------------------------------------------------------------------ *)

\* A call that queues nothing and takes no reference.
delete_dead_snapshots_not_queued(p, w) == [pending |-> p, writes |-> w]

\* A queue that also refuses the item while a reference on c->writes is
\* held, as it is while the job runs.
delete_dead_snapshots_once(p, w) ==
    IF p \/ w > 0 THEN [pending |-> p, writes |-> w]
    ELSE [pending |-> TRUE, writes |-> w + 1]

\* percpu_ref_tryget, then queue_work; the reference is put back when the
\* work item was already queued.
bch2_delete_dead_snapshots(p, w) ==
    IF p THEN [pending |-> TRUE, writes |-> (w + 1) - 1]
    ELSE [pending |-> TRUE, writes |-> w + 1]

(* ------------------------------------------------------------------ *)
(* Subvolumes                                                         *)
(* ------------------------------------------------------------------ *)

\* A search that takes the last slot when the range is full.
subvolume_slot_last(subs) ==
    LET free == {id \in SubvolIds : subs[id].type = "deleted"}
    IN  IF free = {} THEN SubvolMax ELSE SetMin(free)

\* The first empty slot from SUBVOL_POS_MIN, 0 when the range is full.
subvolume_slot(subs) ==
    LET free == {id \in SubvolIds : subs[id].type = "deleted"}
    IN  IF free = {} THEN 0 ELSE SetMin(free)

\* A subvolume row that ignores ro: always writable.
new_subvolume_rw(snapshot, inode, ro, snap) ==
    [type |-> "subvolume", snapshot |-> snapshot, inode |-> inode,
     RO |-> FALSE, SNAP |-> snap]

\* The new subvolume row.
new_subvolume(snapshot, inode, ro, snap) ==
    [type |-> "subvolume", snapshot |-> snapshot, inode |-> inode,
     RO |-> ro, SNAP |-> snap]

\* A call that fails: the transaction is aborted and the btrees keep their
\* rows; the in-core table keeps what bch2_snapshot_node_create marked.
create_fails(snaps, subs, ch, ret) ==
    [ret |-> ret, snaps |-> snaps, subs |-> subs, cache |-> ch,
     new_subvolid |-> 0, new_snapshotid |-> 0]

\* The source subvolume moves to new_nodes[1].
rebase_src(subs, src_subvolid, new_nodes) ==
    IF src_subvolid # 0
    THEN [subs EXCEPT ![src_subvolid].snapshot = new_nodes[2]]
    ELSE subs

\* The return value, the out parameters and the rows and in-core table the
\* call leaves.
bch2_subvolume_create(snaps, subs, ch, inode, src_subvolid, ro) ==
    LET slot == subvolume_slot(subs) IN
    IF slot = 0 THEN create_fails(snaps, subs, ch, "ENOSPC")
    ELSE IF src_subvolid # 0 /\ ~IsSubvolume(subs, src_subvolid)
    THEN create_fails(snaps, subs, ch, "ENOENT")
    ELSE
      LET parent == IF src_subvolid # 0 THEN subs[src_subvolid].snapshot ELSE 0
          snapshot_subvols == IF src_subvolid # 0 THEN <<slot, src_subvolid>>
                              ELSE <<slot>>
          r == bch2_snapshot_node_create(snaps, ch, parent, snapshot_subvols)
      IN  IF r.ret # "OK" THEN create_fails(snaps, subs, r.cache, r.ret)
          ELSE [ret |-> "OK",
                snaps |-> r.snaps,
                subs |-> [rebase_src(subs, src_subvolid, r.new_snapids) EXCEPT ![slot] =
                             new_subvolume(r.new_snapids[1], inode, ro, src_subvolid # 0)],
                cache |-> mark_updates(r.cache, snaps, r.snaps, 1),
                new_subvolid |-> slot,
                new_snapshotid |-> r.new_snapids[1]]

\* bch2_subvolume_delete without the test of deleting_snapshot.
subvolume_delete_any_flag(snaps, subs, subvolid, deleting_snapshot) ==
    IF ~IsSubvolume(subs, subvolid)
    THEN [ret |-> "EIO", snaps |-> snaps, subs |-> subs, hook |-> FALSE]
    ELSE [ret |-> "OK",
          snaps |-> bch2_snapshot_node_set_deleted(snaps, subs[subvolid].snapshot).snaps,
          subs |-> [subs EXCEPT ![subvolid] = NoSubvolume],
          hook |-> TRUE]

\* The return value, the rows the call leaves and whether the commit hook
\* is registered.  The return value of bch2_snapshot_node_set_deleted is
\* overwritten by the allocation of the hook.
bch2_subvolume_delete(snaps, subs, subvolid, deleting_snapshot) ==
    IF ~IsSubvolume(subs, subvolid)
    THEN [ret |-> "EIO", snaps |-> snaps, subs |-> subs, hook |-> FALSE]
    ELSE IF deleting_snapshot >= 0
            /\ deleting_snapshot # (IF subs[subvolid].SNAP THEN 1 ELSE 0)
    THEN [ret |-> "ENOENT", snaps |-> snaps, subs |-> subs, hook |-> FALSE]
    ELSE [ret |-> "OK",
          snaps |-> bch2_snapshot_node_set_deleted(snaps, subs[subvolid].snapshot).snaps,
          subs |-> [subs EXCEPT ![subvolid] = NoSubvolume],
          hook |-> TRUE]

(* ------------------------------------------------------------------ *)
(* State                                                              *)
(* ------------------------------------------------------------------ *)

IdleJob ==
    [pc |-> "idle", sync |-> FALSE, ret |-> "OK", pos |-> 0, deleted |-> <<>>,
     btree |-> 0, kpos |-> <<0, 0>>, last_pos |-> 0, equiv_seen |-> {}, i |-> 0]

NoRows == [id \in SnapIds |-> NoSnapshot]

NoSubvolumes == [id \in SubvolIds |-> NoSubvolume]

\* hist.mode: "quiet" while no bch2_subvolume_create and no
\* bch2_subvolume_delete has committed since the pass started, "nodelete"
\* while no bch2_subvolume_delete has, "dirty" then; "none" outside a pass.
\* snaps0, subs0 and keys0 are the rows and keys the pass started from,
\* kept while quiet; dead0 the ids that were DELETED when the key sweep
\* started.
\* still holds while no foreground operation at all, a key write included,
\* has committed since the pass started.
NoHist ==
    [mode |-> "none", snaps0 |-> NoRows, subs0 |-> NoSubvolumes, keys0 |-> {},
     dead0 |-> {}, still |-> FALSE]

StartHist ==
    [mode |-> "quiet", snaps0 |-> snapshots, subs0 |-> subvolumes, keys0 |-> keys,
     dead0 |-> {}, still |-> TRUE]

\* No function has been applied on its own.
NoProbe == [fn |-> "none"]

\* The rows of a formatted filesystem: the root subvolume, slot
\* SUBVOL_POS_MIN, on the root snapshot U32_MAX.
RootSnapshots ==
    [id \in SnapIds |-> IF id = SnapIdMax THEN new_snapshot(0, 1) ELSE NoSnapshot]

RootSubvolumes ==
    [id \in SubvolIds |->
        IF id = 1 THEN new_subvolume(SnapIdMax, RootInode, FALSE, FALSE) ELSE NoSubvolume]

\* The table bch2_fs_snapshots_start builds: every row marked, then the
\* equivalence classes.
RECURSIVE mark_all(_, _, _)
mark_all(snaps, ch, pos) ==
    LET id == PeekSnapshot(snaps, pos) IN
    IF id = 0 THEN ch
    ELSE mark_all(snaps, bch2_mark_snapshot(ch, id, snaps[id]), id + 1)

mounted_cache(snaps) ==
    bch2_snapshots_set_equiv(snaps, mark_all(snaps, [id \in SnapIds |-> NoSlot], 0), 0)

Init ==
    /\ snapshots = RootSnapshots
    /\ subvolumes = RootSubvolumes
    /\ keys = {}
    /\ cache = mounted_cache(RootSnapshots)
    /\ pending = FALSE
    /\ writes = 0
    /\ job = IdleJob
    /\ hist = NoHist
    /\ ops = 0
    /\ probe = NoProbe

(* ------------------------------------------------------------------ *)
(* Foreground operations                                              *)
(* ------------------------------------------------------------------ *)

\* Foreground operations run on a mounted filesystem, not while
\* bch2_fs_snapshots_start runs the job itself.
Mounted == ~job.sync

SubvolumeCreate(inode, src_subvolid, ro) ==
    /\ Mounted
    /\ ops < MaxOps
    /\ LET r == bch2_subvolume_create(snapshots, subvolumes, cache, inode, src_subvolid, ro)
       IN  /\ snapshots' = r.snaps
           /\ subvolumes' = r.subs
           /\ cache' = r.cache
           /\ hist' = IF r.ret = "OK" /\ hist.mode = "quiet"
                      THEN [NoHist EXCEPT !.mode = "nodelete", !.dead0 = hist.dead0]
                      ELSE hist
           /\ ops' = IF r.ret = "OK" \/ r.cache # cache THEN ops + 1 ELSE ops
    /\ UNCHANGED <<keys, pending, writes, job, probe>>

\* The commit hook runs bch2_delete_dead_snapshots when the transaction
\* commits.
SubvolumeDelete(subvolid, deleting_snapshot) ==
    /\ Mounted
    /\ ops < MaxOps
    /\ LET r == bch2_subvolume_delete(snapshots, subvolumes, subvolid, deleting_snapshot)
           q == IF r.hook THEN bch2_delete_dead_snapshots(pending, writes)
                ELSE [pending |-> pending, writes |-> writes]
       IN  /\ snapshots' = r.snaps
           /\ subvolumes' = r.subs
           /\ cache' = mark_updates(cache, snapshots, r.snaps, 1)
           /\ pending' = q.pending
           /\ writes' = q.writes
           /\ hist' = IF r.ret = "OK" /\ hist.mode # "none"
                      THEN [NoHist EXCEPT !.mode = "dirty"]
                      ELSE hist
           /\ ops' = IF r.ret = "OK" THEN ops + 1 ELSE ops
    /\ UNCHANGED <<keys, job, probe>>

\* A write into a writable subvolume: the key carries the snapshot id
\* bch2_subvolume_get_snapshot returns for it.
KeyWrite(btree, pos, subvol) ==
    /\ Mounted
    /\ ops < MaxOps
    /\ ops' = ops + 1
    /\ IsSubvolume(subvolumes, subvol)
    /\ ~subvolumes[subvol].RO
    /\ LET k == [btree |-> btree, pos |-> pos, snapshot |-> subvolumes[subvol].snapshot]
       IN  /\ k \notin keys
           /\ keys' = keys \cup {k}
    /\ hist' = [hist EXCEPT !.still = FALSE]
    /\ UNCHANGED <<snapshots, subvolumes, cache, pending, writes, job, probe>>

(* ------------------------------------------------------------------ *)
(* Reclamation job: bch2_delete_dead_snapshots_work                   *)
(* ------------------------------------------------------------------ *)

\* The worker takes the queued work item and enters the job.
WorkStart ==
    /\ pending
    /\ job.pc = "idle"
    /\ pending' = FALSE
    /\ job' = [IdleJob EXCEPT !.pc = "detect"]
    /\ hist' = StartHist
    /\ UNCHANGED <<snapshots, subvolumes, keys, cache, writes, ops, probe>>

\* The job leaves with ret: "goto err" and the fall through to err.
job_exit(ret) == [IdleJob EXCEPT !.pc = "exit", !.ret = ret, !.sync = job.sync]

\* snapshot_live(children[0]) alone: the second child is not looked at.
first_child_live(snaps, children) == snapshot_live(snaps, children[1])

\* Only children[1] is asked.
second_child_live(snaps, children) == snapshot_live(snaps, children[2])

\* snapshot_live(children[0]) ?: snapshot_live(children[1])
children_live(snaps, children) ==
    LET l0 == snapshot_live(snaps, children[1])
    IN  IF l0 # "0" THEN l0 ELSE snapshot_live(snaps, children[2])

\* Leaves only: a row that still names a child is skipped.
dead_candidate_leaf(row) == ~(row.DELETED \/ row.SUBVOL) /\ row.children = <<0, 0>>

\* The rows the first walk looks at: neither DELETED nor SUBVOL.
dead_candidate(row) == ~(row.DELETED \/ row.SUBVOL)

\* One iteration of the first walk: a row that is neither DELETED nor
\* SUBVOL and has no live child is set DELETED, in its own transaction.
DetectStep ==
    /\ job.pc = "detect"
    /\ LET id == PeekSnapshot(snapshots, job.pos) IN
       IF id = 0
       THEN /\ job' = [job EXCEPT !.pc = "equiv", !.pos = 0]
            /\ UNCHANGED <<snapshots, cache>>
       ELSE IF ~dead_candidate(snapshots[id])
       THEN /\ job' = [job EXCEPT !.pos = id + 1]
            /\ UNCHANGED <<snapshots, cache>>
       ELSE LET ret == children_live(snapshots, snapshots[id].children) IN
            IF ret \notin {"0", "1"}
            THEN /\ job' = job_exit(ret)
                 /\ UNCHANGED <<snapshots, cache>>
            ELSE IF ret = "1"
            THEN /\ job' = [job EXCEPT !.pos = id + 1]
                 /\ UNCHANGED <<snapshots, cache>>
            ELSE LET d == bch2_snapshot_node_set_deleted(snapshots, id) IN
                 IF d.ret # "OK"
                 THEN /\ job' = job_exit(d.ret)
                      /\ UNCHANGED <<snapshots, cache>>
                 ELSE /\ snapshots' = d.snaps
                      /\ cache' = mark_updates(cache, snapshots, d.snaps, 1)
                      /\ job' = [job EXCEPT !.pos = id + 1]
    /\ UNCHANGED <<subvolumes, keys, pending, writes, hist, ops, probe>>

\* One iteration of the walk of bch2_snapshots_set_equiv.
EquivStep ==
    /\ job.pc = "equiv"
    /\ LET id == PeekSnapshot(snapshots, job.pos) IN
       IF id = 0
       THEN /\ job' = [job EXCEPT !.pc = "collect", !.pos = 0]
            /\ UNCHANGED cache
       ELSE /\ cache' = set_equiv_row(snapshots, cache, id)
            /\ job' = [job EXCEPT !.pos = id + 1]
    /\ UNCHANGED <<snapshots, subvolumes, keys, pending, writes, hist, ops, probe>>

\* A list that takes one id and drops every later one.
snapshot_id_add_first(s, id) == IF s = <<>> THEN Append(s, id) ELSE s

\* snapshot_id_add
snapshot_id_add(s, id) == Append(s, id)

\* snapshot_list_has_id
snapshot_list_has_id(s, id) == \E n \in 1..Len(s) : s[n] = id

FirstBtree == SetMin(SnapshotBtrees)

DeletedIds(snaps) == {id \in SnapIds : IsSnapshot(snaps, id) /\ snaps[id].DELETED}

\* One iteration of the walk that fills the list of deleted ids; the key
\* sweep starts when it ends.
CollectStep ==
    /\ job.pc = "collect"
    /\ LET id == PeekSnapshot(snapshots, job.pos) IN
       IF id = 0
       THEN /\ job' = [job EXCEPT !.pc = "sweep", !.pos = 0, !.btree = FirstBtree,
                                  !.kpos = <<0, 0>>, !.last_pos = 0, !.equiv_seen = {}]
            /\ hist' = IF hist.mode \in {"quiet", "nodelete"}
                       THEN [hist EXCEPT !.dead0 = DeletedIds(snapshots)]
                       ELSE hist
       ELSE /\ job' = [job EXCEPT !.pos = id + 1,
                                  !.deleted = IF snapshots[id].DELETED
                                              THEN snapshot_id_add(@, id) ELSE @]
            /\ hist' = hist
    /\ UNCHANGED <<snapshots, subvolumes, keys, cache, pending, writes, ops, probe>>

NoKey == [btree |-> 0, pos |-> 0, snapshot |-> 0]

\* Keys are ordered by position, then snapshot.
KeyLE(a, b) == a[1] < b[1] \/ (a[1] = b[1] /\ a[2] <= b[2])

\* bch2_btree_iter_peek with BTREE_ITER_ALL_SNAPSHOTS: the first key of the
\* btree at or after the iterator.
PeekKey(ks, btree, kpos) ==
    LET S == {k \in ks : k.btree = btree /\ KeyLE(kpos, <<k.pos, k.snapshot>>)}
    IN  IF S = {} THEN NoKey
        ELSE CHOOSE k \in S : \A o \in S : KeyLE(<<k.pos, k.snapshot>>, <<o.pos, o.snapshot>>)

\* The key is deleted only when its equiv was seen at this position: the
\* list of deleted ids is not looked at.
sweep_deletes_equiv_only(deleted, seen, snapshot, equiv) == equiv \in seen

\* The key is deleted only when its snapshot is in the list of deleted
\* ids: the equivs seen are not looked at.
sweep_deletes_listed_only(deleted, seen, snapshot, equiv) ==
    snapshot_list_has_id(deleted, snapshot)

\* The key is deleted when its snapshot is in the list of deleted ids or
\* its equiv was seen at this position.
sweep_deletes(deleted, seen, snapshot, equiv) ==
    snapshot_list_has_id(deleted, snapshot) \/ equiv \in seen

\* One iteration of the loop of bch2_snapshot_delete_keys_btree, and the
\* step from one btree to the next.
SweepStep ==
    /\ job.pc = "sweep"
    /\ LET k == PeekKey(keys, job.btree, job.kpos) IN
       IF k = NoKey
       THEN LET rest == {b \in SnapshotBtrees : b > job.btree} IN
            /\ job' = IF rest = {}
                      THEN [job EXCEPT !.pc = "remove", !.i = 1, !.btree = 0,
                                       !.kpos = <<0, 0>>, !.last_pos = 0, !.equiv_seen = {}]
                      ELSE [job EXCEPT !.btree = SetMin(rest), !.kpos = <<0, 0>>,
                                       !.last_pos = 0, !.equiv_seen = {}]
            /\ UNCHANGED keys
       ELSE LET equiv == cache[k.snapshot].equiv
                seen == IF k.pos # job.last_pos THEN {} ELSE job.equiv_seen
            IN  IF sweep_deletes(job.deleted, seen, k.snapshot, equiv)
                THEN /\ keys' = keys \ {k}
                     /\ job' = [job EXCEPT !.equiv_seen = seen, !.last_pos = k.pos,
                                           !.kpos = <<k.pos, k.snapshot + 1>>]
                ELSE /\ keys' = keys
                     /\ job' = [job EXCEPT !.equiv_seen = seen \cup {equiv},
                                           !.last_pos = k.pos,
                                           !.kpos = <<k.pos, k.snapshot + 1>>]
    /\ UNCHANGED <<snapshots, subvolumes, cache, pending, writes, hist, ops, probe>>

\* One iteration of the last loop: the row of deleted.d[i] is removed, in
\* its own transaction.
RemoveStep ==
    /\ job.pc = "remove"
    /\ IF job.i > Len(job.deleted)
       THEN /\ job' = job_exit("OK")
            /\ UNCHANGED <<snapshots, cache>>
       ELSE LET r == bch2_snapshot_node_delete(snapshots, job.deleted[job.i]) IN
            IF r.ret # "OK"
            THEN /\ job' = job_exit(r.ret)
                 /\ UNCHANGED <<snapshots, cache>>
            ELSE /\ snapshots' = r.snaps
                 /\ cache' = mark_updates(cache, snapshots, r.snaps, 1)
                 /\ job' = [job EXCEPT !.i = @ + 1]
    /\ UNCHANGED <<subvolumes, keys, pending, writes, hist, ops, probe>>

\* err: the list is freed and the reference on c->writes is put.
WorkExit ==
    /\ job.pc = "exit"
    /\ writes' = writes - 1
    /\ job' = IdleJob
    /\ hist' = NoHist
    /\ UNCHANGED <<snapshots, subvolumes, keys, cache, pending, ops, probe>>

(* ------------------------------------------------------------------ *)
(* Mount                                                              *)
(* ------------------------------------------------------------------ *)

\* A crash or shutdown followed by the next mount: the btrees are what was
\* committed, everything in memory is rebuilt by bch2_fs_snapshots_start,
\* which restarts reclamation when a row is DELETED: it runs the job
\* itself with the fsck option, else queues it.
bch2_fs_snapshots_start(fsck) ==
    /\ ops < MaxOps
    /\ ops' = ops + 1
    /\ cache' = mounted_cache(snapshots)
    /\ LET have_deleted == DeletedIds(snapshots) # {}
           q == bch2_delete_dead_snapshots(FALSE, 0)
       IN  IF have_deleted /\ fsck
           THEN /\ job' = [IdleJob EXCEPT !.pc = "detect", !.sync = TRUE]
                /\ pending' = FALSE
                /\ writes' = 0
                /\ hist' = StartHist
           ELSE IF have_deleted
           THEN /\ job' = IdleJob
                /\ pending' = q.pending
                /\ writes' = q.writes
                /\ hist' = NoHist
           ELSE /\ job' = IdleJob
                /\ pending' = FALSE
                /\ writes' = 0
                /\ hist' = NoHist
    /\ UNCHANGED <<snapshots, subvolumes, keys, probe>>

(* ------------------------------------------------------------------ *)
(* Specification                                                      *)
(* ------------------------------------------------------------------ *)

Next ==
    \/ \E a \in CreateArgs, src \in {0} \cup SubvolIds :
          SubvolumeCreate(a[1], src, a[2])
    \/ \E subvolid \in SubvolIds, deleting_snapshot \in {-1, 0, 1} :
          SubvolumeDelete(subvolid, deleting_snapshot)
    \/ \E btree \in SnapshotBtrees, pos \in Positions, subvol \in SubvolIds :
          KeyWrite(btree, pos, subvol)
    \/ WorkStart
    \/ DetectStep
    \/ EquivStep
    \/ CollectStep
    \/ SweepStep
    \/ RemoveStep
    \/ WorkExit
    \/ \E fsck \in BOOLEAN : bch2_fs_snapshots_start(fsck)

Spec == Init /\ [][Next]_vars

(* ------------------------------------------------------------------ *)
(* The key validator, applied on its own                              *)
(* ------------------------------------------------------------------ *)

\* The keys bch2_snapshot_invalid is given: a position inode:offset (the
\* offset is 64 bits wide, so it can lie above U32_MAX, which SnapIdMax
\* stands for), whether the value has sizeof(struct bch_snapshot) bytes,
\* and the 32 bit parent and children fields.
InvalidArgs ==
    [inode : {0, 1}, offset : 0 .. SnapIdMax + 1, val_ok : BOOLEAN,
     parent : 0 .. SnapIdMax, children : (0 .. SnapIdMax) \X (0 .. SnapIdMax)]

\* bch2_snapshot_invalid without the test for equal children.
snapshot_invalid_dup_children(k) ==
    LET after_max == k.inode > 0 \/ (k.inode = 0 /\ k.offset > SnapIdMax)
        before_min == k.inode = 0 /\ k.offset < 1
    IN  IF after_max \/ before_min THEN "bad pos"
        ELSE IF ~k.val_ok THEN "bad val size"
        ELSE IF k.parent # 0 /\ k.parent <= k.offset THEN "bad parent node"
        ELSE IF k.children[1] < k.children[2] THEN "children not normalized"
        ELSE IF \E i \in 1 .. 2 : k.children[i] >= k.offset THEN "bad child node"
        ELSE "OK"

\* The reason bch2_snapshot_invalid returns, "OK" for NULL.  bkey_cmp
\* orders positions by inode, then offset.
bch2_snapshot_invalid(k) ==
    LET after_max == k.inode > 0 \/ (k.inode = 0 /\ k.offset > SnapIdMax)
        before_min == k.inode = 0 /\ k.offset < 1
    IN  IF after_max \/ before_min THEN "bad pos"
        ELSE IF ~k.val_ok THEN "bad val size"
        ELSE IF k.parent # 0 /\ k.parent <= k.offset THEN "bad parent node"
        ELSE IF k.children[1] < k.children[2] THEN "children not normalized"
        ELSE IF k.children[1] # 0 /\ k.children[1] = k.children[2]
        THEN "duplicate child nodes"
        ELSE IF \E i \in 1 .. 2 : k.children[i] >= k.offset THEN "bad child node"
        ELSE "OK"

InitInvalid ==
    /\ snapshots = RootSnapshots
    /\ subvolumes = RootSubvolumes
    /\ keys = {}
    /\ cache = mounted_cache(RootSnapshots)
    /\ pending = FALSE
    /\ writes = 0
    /\ job = IdleJob
    /\ hist = NoHist
    /\ ops = 0
    /\ probe \in {[fn |-> "key", k |-> k] : k \in InvalidArgs}

\* The btree code validates the key.
SnapshotInvalid ==
    /\ probe.fn = "key"
    /\ probe' = [fn |-> "bch2_snapshot_invalid", k |-> probe.k,
                 ret |-> bch2_snapshot_invalid(probe.k)]
    /\ UNCHANGED <<snapshots, subvolumes, keys, cache, pending, writes, job, hist, ops>>

NextInvalid == SnapshotInvalid

SpecInvalid == InitInvalid /\ [][NextInvalid]_vars

(* ------------------------------------------------------------------ *)
(* Creation when the in-core table cannot grow                        *)
(* ------------------------------------------------------------------ *)

\* The loop over nr_snapids when genradix_ptr_alloc fails in the call of
\* bch2_mark_snapshot number fail: that row is in the transaction, the
\* in-core table is left alone, the loop is left with -ENOMEM and
\* new_snapids[i] and the entries after it are not assigned.
RECURSIVE alloc_snapids_nomem(_, _, _, _, _, _, _, _)
alloc_snapids_nomem(snaps, ch, pos, parent, snapshot_subvols, i, new_snapids, fail) ==
    IF i > Len(snapshot_subvols)
    THEN [ret |-> "OK", snaps |-> snaps, cache |-> ch, new_snapids |-> new_snapids]
    ELSE LET slot == prev_slot(pos) IN
         IF slot <= 0
         THEN [ret |-> "ENOSPC", snaps |-> snaps, cache |-> ch, new_snapids |-> new_snapids]
         ELSE LET n == new_snapshot(parent, snapshot_subvols[i]) IN
              IF i = fail
              THEN [ret |-> "ENOMEM", snaps |-> [snaps EXCEPT ![slot] = n], cache |-> ch,
                    new_snapids |-> new_snapids]
              ELSE alloc_snapids_nomem([snaps EXCEPT ![slot] = n],
                                       bch2_mark_snapshot(ch, slot, n),
                                       slot, parent, snapshot_subvols, i + 1,
                                       Append(new_snapids, slot), fail)

\* bch2_snapshot_node_create with that failure.  The break leaves the loop
\* only: with a parent the function goes on to the parent row, where ret
\* is assigned the error of the peek, and links it to new_snapids[0] and
\* new_snapids[1]; what the loop did not assign is what the caller's
\* array held, uninit.  nomem tells that the allocation was reached.
snapshot_node_create_nomem(snaps, ch, parent, snapshot_subvols, fail, uninit) ==
    LET first == PeekSnapshot(snaps, 0) IN
    IF first = 0
    THEN [ret |-> "EINVAL", snaps |-> snaps, cache |-> ch, new_snapids |-> uninit,
          nomem |-> FALSE]
    ELSE LET a == alloc_snapids_nomem(snaps, ch, first, parent, snapshot_subvols, 1,
                                      <<>>, fail)
             ids == [j \in 1 .. 2 |-> IF j <= Len(a.new_snapids) THEN a.new_snapids[j]
                                      ELSE uninit[j]]
             b == [ret |-> a.ret, snaps |-> a.snaps, cache |-> a.cache,
                   new_snapids |-> ids, nomem |-> a.ret = "ENOMEM"]
         IN  IF a.ret = "ENOSPC" \/ parent = 0 THEN b
             ELSE LET k == PeekSnapshot(a.snaps, parent) IN
                  IF k = 0 THEN [b EXCEPT !.ret = "ENOENT"]
                  ELSE IF a.snaps[k].children[1] # 0 \/ a.snaps[k].children[2] # 0
                  THEN [b EXCEPT !.ret = "EINVAL"]
                  ELSE [b EXCEPT !.ret = "OK",
                                 !.snaps = [a.snaps EXCEPT ![k] = link_parent(@, ids)]]

\* bch2_subvolume_create over it: new_nodes is not initialized by the
\* caller.  linked tells that the parent row of the transaction holds new
\* children.
subvolume_create_nomem(snaps, subs, ch, inode, src_subvolid, ro, fail, uninit) ==
    LET slot == subvolume_slot(subs)
        none == [ret |-> "OK", snaps |-> snaps, subs |-> subs, cache |-> ch,
                 new_snapshotid |-> 0, nomem |-> FALSE, linked |-> FALSE]
    IN
    IF slot = 0 THEN [none EXCEPT !.ret = "ENOSPC"]
    ELSE IF src_subvolid # 0 /\ ~IsSubvolume(subs, src_subvolid)
    THEN [none EXCEPT !.ret = "ENOENT"]
    ELSE
      LET parent == IF src_subvolid # 0 THEN subs[src_subvolid].snapshot ELSE 0
          snapshot_subvols == IF src_subvolid # 0 THEN <<slot, src_subvolid>>
                              ELSE <<slot>>
          r == snapshot_node_create_nomem(snaps, ch, parent, snapshot_subvols, fail, uninit)
      IN  IF r.ret # "OK"
          THEN [none EXCEPT !.ret = r.ret, !.cache = r.cache, !.nomem = r.nomem]
          ELSE [ret |-> "OK",
                snaps |-> r.snaps,
                subs |-> [rebase_src(subs, src_subvolid, r.new_snapids) EXCEPT ![slot] =
                             new_subvolume(r.new_snapids[1], inode, ro, src_subvolid # 0)],
                cache |-> mark_updates(r.cache, snaps, r.snaps, 1),
                new_snapshotid |-> r.new_snapids[1],
                nomem |-> r.nomem,
                linked |-> parent # 0]

(* ------------------------------------------------------------------ *)
(* fsck and deletion on the btrees a mount can find                   *)
(* ------------------------------------------------------------------ *)

\* bch2_snapshot_check of the row at id: 0, -ENOENT or -EINVAL.  The
\* loop over the children ends at the first child that is 0.
bch2_snapshot_check(snaps, subs, id) ==
    LET s == snaps[id]
        p == snapshot_lookup(snaps, s.parent)
        c0 == snapshot_lookup(snaps, s.children[1])
        c1 == snapshot_lookup(snaps, s.children[2])
    IN  IF ~IsSubvolume(subs, s.subvol) THEN "ENOENT"
        ELSE IF s.SUBVOL # (subs[s.subvol].snapshot = id) THEN "EINVAL"
        ELSE IF s.parent # 0 /\ p.ret # "OK" THEN p.ret
        ELSE IF s.parent # 0 /\ p.v.children[1] # id /\ p.v.children[2] # id
        THEN "EINVAL"
        ELSE IF s.children[1] = 0 THEN "OK"
        ELSE IF c0.ret # "OK" THEN c0.ret
        ELSE IF c0.v.parent # id THEN "EINVAL"
        ELSE IF s.children[2] = 0 THEN "OK"
        ELSE IF c1.ret # "OK" THEN c1.ret
        ELSE IF c1.v.parent # id THEN "EINVAL"
        ELSE "OK"

\* The first loop of bch2_fs_snapshots_check from pos: the result of the
\* first row whose check fails, 0 at the end of the btree.
RECURSIVE check_snapshots(_, _, _)
check_snapshots(snaps, subs, pos) ==
    LET id == PeekSnapshot(snaps, pos)
        ret == bch2_snapshot_check(snaps, subs, id)
    IN  IF id = 0 THEN "OK"
        ELSE IF ret # "OK" THEN ret
        ELSE check_snapshots(snaps, subs, id + 1)

\* The first subvolume row at or after pos, 0 at the end of the btree.
PeekSubvolume(subs, pos) ==
    LET S == {id \in SubvolIds : id >= pos /\ subs[id].type = "subvolume"}
    IN  IF S = {} THEN 0 ELSE SetMin(S)

\* The second loop of bch2_fs_snapshots_check from pos, ret being what the
\* body last assigned: -ENOENT of snapshot_lookup is logged and the loop
\* goes on, any other error leaves the loop; for_each_btree_key assigns
\* the error of its own peek to ret before every pass and at the end of
\* the btree.
RECURSIVE check_subvolumes(_, _, _, _)
check_subvolumes(snaps, subs, pos, ret) ==
    LET id == PeekSubvolume(subs, pos)
        r == snapshot_lookup(snaps, subs[id].snapshot).ret
    IN  IF id = 0 THEN "OK"
        ELSE IF r \notin {"OK", "ENOENT"} THEN r
        ELSE check_subvolumes(snaps, subs, id + 1, r)

\* fsck of the snapshots and subvolumes btrees: the value returned.
bch2_fs_snapshots_check(snaps, subs) ==
    LET ret == check_snapshots(snaps, subs, 0)
    IN  IF ret # "OK" THEN ret
        ELSE check_subvolumes(snaps, subs, 0, ret)

\* The snapshot rows a disk can hold at id: any fields the key validator
\* accepts, with a parent and children among the two highest ids and a
\* subvolume among the first two slots.
TableSnapshotRows(id) ==
    {NoSnapshot} \cup
    {r \in [type : {"snapshot"}, parent : {0, SnapIdMax},
            children : {<<0, 0>>, <<SnapIdMax - 1, 0>>}, subvol : 0 .. 2,
            SUBVOL : BOOLEAN, DELETED : {FALSE}] :
        bch2_snapshot_invalid([inode |-> 0, offset |-> id, val_ok |-> TRUE,
                               parent |-> r.parent, children |-> r.children]) = "OK"}

\* The subvolume rows a disk can hold at id: bch2_subvolume_invalid looks
\* at the position and the size only.
TableSubvolumeRows(id) ==
    {NoSubvolume} \cup
    {new_subvolume(snapshot, RootInode, FALSE, snap) :
        snapshot \in SnapIdMax - 2 .. SnapIdMax, snap \in BOOLEAN}

\* A mount of a disk whose rows pass the key validators and need not be
\* consistent with each other: what fsck is run on.
InitTables ==
    /\ snapshots \in
          {[id \in SnapIds |-> IF id = SnapIdMax THEN a
                               ELSE IF id = SnapIdMax - 1 THEN b ELSE NoSnapshot] :
              a \in TableSnapshotRows(SnapIdMax), b \in TableSnapshotRows(SnapIdMax - 1)}
    /\ subvolumes \in
          {[id \in SubvolIds |-> IF id = 1 THEN a ELSE IF id = 2 THEN b ELSE NoSubvolume] :
              a \in TableSubvolumeRows(1), b \in TableSubvolumeRows(2)}
    /\ keys = {}
    /\ cache = mounted_cache(snapshots)
    /\ pending = FALSE
    /\ writes = 0
    /\ job = IdleJob
    /\ hist = NoHist
    /\ ops = 0
    /\ probe = NoProbe

\* fsck runs bch2_fs_snapshots_check.
FsckCheck ==
    /\ probe = NoProbe
    /\ probe' = [fn |-> "bch2_fs_snapshots_check",
                 ret |-> bch2_fs_snapshots_check(snapshots, subvolumes)]
    /\ UNCHANGED <<snapshots, subvolumes, keys, cache, pending, writes, job, hist, ops>>

\* bch2_subvolume_delete in a transaction that commits when the call
\* returns 0; snapid is the snapshot field of the row it found.
SubvolumeDeleteCall(subvolid, deleting_snapshot) ==
    /\ probe = NoProbe
    /\ LET r == bch2_subvolume_delete(snapshots, subvolumes, subvolid, deleting_snapshot)
           q == IF r.hook THEN bch2_delete_dead_snapshots(pending, writes)
                ELSE [pending |-> pending, writes |-> writes]
       IN  /\ snapshots' = r.snaps
           /\ subvolumes' = r.subs
           /\ cache' = mark_updates(cache, snapshots, r.snaps, 1)
           /\ pending' = q.pending
           /\ writes' = q.writes
           /\ probe' = [fn |-> "bch2_subvolume_delete",
                        snapid |-> IF IsSubvolume(subvolumes, subvolid)
                                   THEN subvolumes[subvolid].snapshot ELSE 0,
                        ret |-> r.ret]
    /\ UNCHANGED <<keys, job, hist, ops>>

\* bch2_subvolume_create in a transaction that commits when the call
\* returns 0; parent is the snapshot of the source subvolume, and hist
\* keeps the rows the call found.
SubvolumeCreateCall(inode, src_subvolid, ro) ==
    /\ probe = NoProbe
    /\ LET r == bch2_subvolume_create(snapshots, subvolumes, cache, inode, src_subvolid, ro)
       IN  /\ snapshots' = r.snaps
           /\ subvolumes' = r.subs
           /\ cache' = r.cache
           /\ probe' = [fn |-> "bch2_subvolume_create",
                        parent |-> IF IsSubvolume(subvolumes, src_subvolid)
                                   THEN subvolumes[src_subvolid].snapshot ELSE 0,
                        ret |-> r.ret]
    /\ hist' = [NoHist EXCEPT !.snaps0 = snapshots, !.subs0 = subvolumes]
    /\ UNCHANGED <<keys, pending, writes, job, ops>>

\* bch2_subvolume_create when the in-core table cannot grow at the first
\* or the second new row; new_nodes holds any two values before the call.
SubvolumeCreateNoMem(inode, src_subvolid, ro, fail, uninit) ==
    /\ probe = NoProbe
    /\ LET r == subvolume_create_nomem(snapshots, subvolumes, cache, inode, src_subvolid,
                                       ro, fail, uninit)
       IN  /\ r.nomem
           /\ snapshots' = r.snaps
           /\ subvolumes' = r.subs
           /\ cache' = r.cache
           /\ probe' = [fn |-> "bch2_subvolume_create, ENOMEM",
                        parent |-> IF IsSubvolume(subvolumes, src_subvolid)
                                   THEN subvolumes[src_subvolid].snapshot ELSE 0,
                        ret |-> r.ret, linked |-> r.linked,
                        new_snapshotid |-> r.new_snapshotid]
    /\ hist' = [NoHist EXCEPT !.snaps0 = snapshots, !.subs0 = subvolumes]
    /\ UNCHANGED <<keys, pending, writes, job, ops>>

NextTables ==
    \/ FsckCheck
    \/ \E subvolid \in SubvolIds, deleting_snapshot \in {-1, 0, 1} :
          SubvolumeDeleteCall(subvolid, deleting_snapshot)
    \/ \E a \in CreateArgs, src \in {0} \cup SubvolIds :
          SubvolumeCreateCall(a[1], src, a[2])

SpecTables == InitTables /\ [][NextTables]_vars

\* The filesystems fs and those one committed bch2_subvolume_create away
\* from one of them.
CreatedFrom(fs) ==
    LET calls == {bch2_subvolume_create(s.snaps, s.subs, s.cache, a[1], src, a[2]) :
                     s \in fs, a \in CreateArgs, src \in {0} \cup SubvolIds}
    IN  fs \cup {[snaps |-> r.snaps, subs |-> r.subs, cache |-> r.cache] :
                    r \in {c \in calls : c.ret = "OK"}}

\* A formatted filesystem after at most two subvolumes or snapshots were
\* created.
InitNoMem ==
    /\ \E s \in CreatedFrom(CreatedFrom({[snaps |-> RootSnapshots, subs |-> RootSubvolumes,
                                         cache |-> mounted_cache(RootSnapshots)]})) :
          /\ snapshots = s.snaps
          /\ subvolumes = s.subs
          /\ cache = s.cache
    /\ keys = {}
    /\ pending = FALSE
    /\ writes = 0
    /\ job = IdleJob
    /\ hist = NoHist
    /\ ops = 0
    /\ probe = NoProbe

NextNoMem ==
    \E a \in CreateArgs, src \in {0} \cup SubvolIds, fail \in 1 .. 2,
       uninit \in (0 .. SnapIdMax) \X (0 .. SnapIdMax) :
       SubvolumeCreateNoMem(a[1], src, a[2], fail, uninit)

SpecNoMem == InitNoMem /\ [][NextNoMem]_vars

(* ------------------------------------------------------------------ *)
(* A whole run of bch2_delete_dead_snapshots_work                     *)
(* ------------------------------------------------------------------ *)

\* The first walk from pos: the rows and the table it leaves, and the
\* error it stops with.
RECURSIVE work_detect(_, _, _)
work_detect(snaps, ch, pos) ==
    LET id == PeekSnapshot(snaps, pos)
        ret == children_live(snaps, snaps[id].children)
        d == bch2_snapshot_node_set_deleted(snaps, id)
    IN  IF id = 0 THEN [ret |-> "OK", snaps |-> snaps, cache |-> ch]
        ELSE IF ~dead_candidate(snaps[id]) THEN work_detect(snaps, ch, id + 1)
        ELSE IF ret \notin {"0", "1"} THEN [ret |-> ret, snaps |-> snaps, cache |-> ch]
        ELSE IF ret = "1" THEN work_detect(snaps, ch, id + 1)
        ELSE IF d.ret # "OK" THEN [ret |-> d.ret, snaps |-> snaps, cache |-> ch]
        ELSE work_detect(d.snaps, mark_updates(ch, snaps, d.snaps, 1), id + 1)

\* The walk that fills the list of deleted ids, from pos.
RECURSIVE work_collect(_, _, _)
work_collect(snaps, pos, deleted) ==
    LET id == PeekSnapshot(snaps, pos) IN
    IF id = 0 THEN deleted
    ELSE work_collect(snaps, id + 1,
                      IF snaps[id].DELETED THEN snapshot_id_add(deleted, id) ELSE deleted)

\* bch2_snapshot_delete_keys_btree on every btree from btree on: the keys
\* left.
RECURSIVE work_sweep(_, _, _, _, _, _, _)
work_sweep(ks, ch, deleted, btree, kpos, last_pos, equiv_seen) ==
    LET k == PeekKey(ks, btree, kpos)
        rest == {b \in SnapshotBtrees : b > btree}
        equiv == ch[k.snapshot].equiv
        seen == IF k.pos # last_pos THEN {} ELSE equiv_seen
    IN  IF k = NoKey
        THEN IF rest = {} THEN ks
             ELSE work_sweep(ks, ch, deleted, SetMin(rest), <<0, 0>>, 0, {})
        ELSE IF sweep_deletes(deleted, seen, k.snapshot, equiv)
        THEN work_sweep(ks \ {k}, ch, deleted, btree, <<k.pos, k.snapshot + 1>>, k.pos, seen)
        ELSE work_sweep(ks, ch, deleted, btree, <<k.pos, k.snapshot + 1>>, k.pos,
                        seen \cup {equiv})

\* The last loop from deleted.d[i].
RECURSIVE work_remove(_, _, _, _)
work_remove(snaps, ch, deleted, i) ==
    LET r == bch2_snapshot_node_delete(snaps, deleted[i]) IN
    IF i > Len(deleted) THEN [ret |-> "OK", snaps |-> snaps, cache |-> ch]
    ELSE IF r.ret # "OK" THEN [ret |-> r.ret, snaps |-> snaps, cache |-> ch]
    ELSE work_remove(r.snaps, mark_updates(ch, snaps, r.snaps, 1), deleted, i + 1)

\* The job run from its first line to err with nothing else running: the
\* value of ret there and the rows and keys on disk.
bch2_delete_dead_snapshots_work(snaps, ch, ks) ==
    LET d == work_detect(snaps, ch, 0)
        eq == bch2_snapshots_set_equiv(d.snaps, d.cache, 0)
        deleted == work_collect(d.snaps, 0, <<>>)
        swept == work_sweep(ks, eq, deleted, FirstBtree, <<0, 0>>, 0, {})
        r == work_remove(d.snaps, eq, deleted, 1)
    IN  IF d.ret # "OK" THEN [ret |-> d.ret, snaps |-> d.snaps, keys |-> ks]
        ELSE [ret |-> r.ret, snaps |-> r.snaps, keys |-> swept]

\* A crash now, the next mount and the job restarted by it, run to its
\* end.
Resumed == bch2_delete_dead_snapshots_work(snapshots, mounted_cache(snapshots), keys)

\* The job run from where the running pass started.
Uninterrupted ==
    bch2_delete_dead_snapshots_work(hist.snaps0, mounted_cache(hist.snaps0), hist.keys0)

(* ------------------------------------------------------------------ *)
(* The equivalence walk on the btree a mount can find                 *)
(* ------------------------------------------------------------------ *)

\* The rows of the three highest ids as a disk can hold them: the top row
\* names any of the two below it as children, each of the two is absent,
\* live or DELETED; all pass the key validator.
EquivSnapshotRows(id) ==
    {NoSnapshot} \cup
    {r \in [type : {"snapshot"}, parent : {0, SnapIdMax},
            children : {<<0, 0>>, <<SnapIdMax - 1, 0>>, <<SnapIdMax - 2, 0>>,
                        <<SnapIdMax - 1, SnapIdMax - 2>>},
            subvol : {1}, SUBVOL : {FALSE}, DELETED : BOOLEAN] :
        bch2_snapshot_invalid([inode |-> 0, offset |-> id, val_ok |-> TRUE,
                               parent |-> r.parent, children |-> r.children]) = "OK"}

\* bch2_fs_snapshots_start has marked every row of such a disk and is
\* about to call bch2_snapshots_set_equiv.
InitEquiv ==
    /\ snapshots \in
          {[id \in SnapIds |-> IF id = SnapIdMax THEN a
                               ELSE IF id = SnapIdMax - 1 THEN b
                               ELSE IF id = SnapIdMax - 2 THEN c ELSE NoSnapshot] :
              a \in EquivSnapshotRows(SnapIdMax), b \in EquivSnapshotRows(SnapIdMax - 1),
              c \in EquivSnapshotRows(SnapIdMax - 2)}
    /\ subvolumes = RootSubvolumes
    /\ keys = {}
    /\ cache = mark_all(snapshots, [id \in SnapIds |-> NoSlot], 0)
    /\ pending = FALSE
    /\ writes = 0
    /\ job = IdleJob
    /\ hist = NoHist
    /\ ops = 0
    /\ probe = NoProbe

\* bch2_snapshots_set_equiv runs over the whole btree.
SetEquiv ==
    /\ probe = NoProbe
    /\ cache' = bch2_snapshots_set_equiv(snapshots, cache, 0)
    /\ probe' = [fn |-> "bch2_snapshots_set_equiv"]
    /\ UNCHANGED <<snapshots, subvolumes, keys, pending, writes, job, hist, ops>>

NextEquiv == SetEquiv

SpecEquiv == InitEquiv /\ [][NextEquiv]_vars

(* ------------------------------------------------------------------ *)
(* The key sweep on its own                                           *)
(* ------------------------------------------------------------------ *)

\* The positions the swept btree holds keys at.
SweepPositions == {1, 2}

\* Snapshot trees the sweep runs on: a root with two leaves below it and a
\* root of its own, the two leaves and the lone root DELETED or not.
SweepTrees ==
    {[id \in SnapIds |->
        IF id = SnapIdMax
        THEN [new_snapshot(0, 1) EXCEPT !.children = <<SnapIdMax - 1, SnapIdMax - 2>>,
                                        !.SUBVOL = FALSE]
        ELSE IF id = SnapIdMax - 1
        THEN [new_snapshot(SnapIdMax, 1) EXCEPT !.DELETED = d1, !.SUBVOL = ~d1]
        ELSE IF id = SnapIdMax - 2
        THEN [new_snapshot(SnapIdMax, 2) EXCEPT !.DELETED = d2, !.SUBVOL = ~d2]
        ELSE IF id = SnapIdMax - 3
        THEN [new_snapshot(0, 3) EXCEPT !.DELETED = d3, !.SUBVOL = ~d3]
        ELSE NoSnapshot] :
     d1 \in BOOLEAN, d2 \in BOOLEAN, d3 \in BOOLEAN}

\* The job at the first line of bch2_snapshot_delete_keys_btree for the
\* first btree: the first walk, bch2_snapshots_set_equiv and the walk that
\* fills the list have run on one of the trees; the btree holds any keys
\* of the snapshots of the tree.
InitSweep ==
    /\ \E t \in SweepTrees :
          LET d == work_detect(t, mounted_cache(t), 0) IN
          /\ snapshots = d.snaps
          /\ cache = bch2_snapshots_set_equiv(d.snaps, d.cache, 0)
          /\ job = [IdleJob EXCEPT !.pc = "sweep", !.btree = FirstBtree,
                                   !.deleted = work_collect(d.snaps, 0, <<>>)]
    /\ subvolumes = NoSubvolumes
    /\ keys \in SUBSET [btree : {FirstBtree}, pos : SweepPositions,
                        snapshot : SnapIdMax - 3 .. SnapIdMax]
    /\ pending = FALSE
    /\ writes = 1
    /\ hist = [StartHist EXCEPT !.dead0 = DeletedIds(snapshots)]
    /\ ops = 0
    /\ probe = NoProbe

NextSweep == SweepStep

SpecSweep == InitSweep /\ [][NextSweep]_vars

(* ------------------------------------------------------------------ *)
(* Properties                                                         *)
(* ------------------------------------------------------------------ *)

SnapshotRows == {id \in SnapIds : IsSnapshot(snapshots, id)}

SubvolumeRows == {id \in SubvolIds : IsSubvolume(subvolumes, id)}

\* C1: a bch2_subvolume_create with no source that succeeds adds exactly
\* one snapshot row, a root with no children that is SUBVOL and owned by
\* the new subvolume, and exactly one subvolume row, on that snapshot, with
\* the inode and RO flag given and SNAP clear; it returns the two new ids
\* and changes no other row.
C1_FreshCreate ==
    [][\A a \in CreateArgs :
        LET r == bch2_subvolume_create(snapshots, subvolumes, cache, a[1], 0, a[2])
            S == r.new_snapshotid
            V == r.new_subvolid
        IN  (SubvolumeCreate(a[1], 0, a[2]) /\ r.ret = "OK") =>
              /\ S \in SnapIds /\ ~IsSnapshot(snapshots, S)
              /\ V \in SubvolIds /\ ~IsSubvolume(subvolumes, V)
              /\ snapshots'[S] = [type |-> "snapshot", parent |-> 0, children |-> <<0, 0>>,
                                  subvol |-> V, SUBVOL |-> TRUE, DELETED |-> FALSE]
              /\ subvolumes'[V] = [type |-> "subvolume", snapshot |-> S, inode |-> a[1],
                                   RO |-> a[2], SNAP |-> FALSE]
              /\ \A id \in SnapIds \ {S} : snapshots'[id] = snapshots[id]
              /\ \A id \in SubvolIds \ {V} : subvolumes'[id] = subvolumes[id]]_vars

\* A second root snapshot, owned by a read-only fresh subvolume of inode 200.
C1_Witness ==
    \E S \in SnapshotRows, V \in SubvolumeRows :
        /\ S # SnapIdMax
        /\ snapshots[S].parent = 0 /\ snapshots[S].SUBVOL /\ snapshots[S].subvol = V
        /\ subvolumes[V].snapshot = S /\ subvolumes[V].inode = 200
        /\ subvolumes[V].RO /\ ~subvolumes[V].SNAP

Max(a, b) == IF a >= b THEN a ELSE b

Min(a, b) == IF a <= b THEN a ELSE b

C5_KeysHaveRows ==
    \A k \in keys : IsSnapshot(snapshots, k.snapshot)

\* The running pass has removed the row of a snapshot that keys carried
\* when the pass started.
C5_Witness ==
    /\ hist.mode = "quiet"
    /\ \E k \in hist.keys0 : ~IsSnapshot(snapshots, k.snapshot)

C8_ChildrenNormalized ==
    \A id \in SnapshotRows :
        LET ch == snapshots[id].children IN
        ch[1] >= ch[2] /\ (ch[1] = ch[2] => ch[1] = 0)

\* The job has removed the first of two children of a node that started
\* the pass with both.
C8_Witness ==
    /\ hist.mode = "quiet"
    /\ \E p \in SnapshotRows :
          /\ hist.snaps0[p].children[2] # 0
          /\ snapshots[p].children = <<hist.snaps0[p].children[2], 0>>

\* C9 as claimed: a row's parent is below its id and its children are above.
C9_Claimed ==
    \A id \in SnapshotRows :
        /\ snapshots[id].parent # 0 => snapshots[id].parent < id
        /\ \A n \in 1..2 : snapshots[id].children[n] # 0 => snapshots[id].children[n] > id

\* C9: a row's parent, when it has one, is above its id and its children
\* are below: the two ids allocated for a snapshot are both below the id
\* of their parent.
C9_TreeGrowsDown ==
    \A id \in SnapshotRows :
        /\ snapshots[id].parent # 0 => snapshots[id].parent > id
        /\ \A n \in 1..2 : snapshots[id].children[n] # 0 => snapshots[id].children[n] < id

\* A node with its two children.
C9_Witness ==
    \E id \in SnapshotRows :
        /\ snapshots[id].children[1] # 0 /\ snapshots[id].children[2] # 0
        /\ snapshots[snapshots[id].children[1]].parent = id
        /\ snapshots[snapshots[id].children[2]].parent = id

\* The representative of id's chain of single-live-child snapshots, read
\* from the rows.
RECURSIVE EquivClass(_, _)
EquivClass(snaps, id) ==
    LET live == {c \in {snaps[id].children[1], snaps[id].children[2]} :
                    IsSnapshot(snaps, c) /\ ~snaps[c].DELETED}
    IN  IF Cardinality(live) = 1 THEN EquivClass(snaps, CHOOSE c \in live : TRUE)
        ELSE id

\* C3: the key sweep deletes a key of a snapshot that is not DELETED only
\* when it retains a key at the same position whose snapshot is in the same
\* chain of single-live-child snapshots.
C3_SweepKeepsLiveKeys ==
    [][\A k \in keys :
        (/\ job.pc = "sweep"
         /\ k \notin keys'
         /\ IsSnapshot(snapshots, k.snapshot)
         /\ ~snapshots[k.snapshot].DELETED)
        => \E o \in keys' :
              /\ o.btree = k.btree
              /\ o.pos = k.pos
              /\ EquivClass(snapshots, o.snapshot) = EquivClass(snapshots, k.snapshot)]_vars

PassDone == job.pc = "exit" /\ job.ret = "OK"

\* C4 as claimed: after a pass that ends without error and with no
\* bch2_subvolume_delete during it, no row is DELETED and no key carries an
\* id that was DELETED when the key sweep started.
C4_Claimed ==
    (PassDone /\ hist.mode \in {"quiet", "nodelete"}) =>
        /\ DeletedIds(snapshots) = {}
        /\ \A k \in keys : k.snapshot \notin hist.dead0

\* C4: after a pass that ends without error and with no
\* bch2_subvolume_delete during it, no row is DELETED and every key carries
\* the id of a row that is present; when no bch2_subvolume_create ran
\* during the pass either, no key carries an id that was DELETED when the
\* key sweep started.
C4_CleanAfterPass ==
    (PassDone /\ hist.mode \in {"quiet", "nodelete"}) =>
        /\ DeletedIds(snapshots) = {}
        /\ \A k \in keys : IsSnapshot(snapshots, k.snapshot)
        /\ hist.mode = "quiet" => \A k \in keys : k.snapshot \notin hist.dead0

\* A pass has ended that swept keys of a DELETED snapshot and left others.
C4_Witness ==
    /\ PassDone
    /\ hist.mode = "quiet"
    /\ \E k \in hist.keys0 : k.snapshot \in hist.dead0
    /\ keys # {}

\* C7: a snapshot row has SUBVOL set exactly when a subvolume row names it
\* as its snapshot.
C7_SubvolFlag ==
    \A s \in SnapshotRows :
        snapshots[s].SUBVOL <=> \E v \in SubvolumeRows : subvolumes[v].snapshot = s

\* The other child of C's parent in snaps, 0 when there is none.
Sibling(snaps, C) ==
    LET ch == snaps[snaps[C].parent].children
    IN  IF ch[1] = C THEN ch[2] ELSE ch[1]

\* C was a DELETED leaf no subvolume is on, under a parent whose other
\* child D was not DELETED, when the pass started.
S3Start(C, D) ==
    /\ IsSnapshot(hist.snaps0, C)
    /\ hist.snaps0[C].DELETED
    /\ hist.snaps0[C].children = <<0, 0>>
    /\ \A v \in SubvolIds : IsSubvolume(hist.subs0, v) => hist.subs0[v].snapshot # C
    /\ IsSnapshot(hist.snaps0, hist.snaps0[C].parent)
    /\ D # 0
    /\ D = Sibling(hist.snaps0, C)
    /\ IsSnapshot(hist.snaps0, D)
    /\ ~hist.snaps0[D].DELETED

\* What scenario S3 expects of C, its parent and its sibling D.
S3End(C, D) ==
    LET P == hist.snaps0[C].parent IN
    /\ \A v \in SubvolumeRows : subvolumes[v].snapshot # C
    /\ ~IsSnapshot(snapshots, C)
    /\ IsSnapshot(snapshots, P)
    /\ ~snapshots[P].DELETED
    /\ snapshots[P].children = <<D, 0>>
    /\ snapshots[D] = hist.snaps0[D]
    /\ \A v \in SubvolIds : hist.subs0[v].snapshot = D => subvolumes[v] = hist.subs0[v]
    /\ \A k \in keys : k.snapshot # C

\* C10 as claimed: a pass that starts with the DELETED leaf C of a deleted
\* subvolume beside a sibling D that is not DELETED ends as S3 expects.
C10_Claimed ==
    (PassDone /\ hist.mode = "quiet") =>
        \A C \in SnapIds, D \in SnapIds : S3Start(C, D) => S3End(C, D)

\* C10: a pass that starts with the DELETED leaf C of a deleted subvolume
\* beside a sibling D that is not DELETED and is the snapshot of a
\* subvolume removes C, leaves the parent P present, not DELETED and with
\* children <<D, 0>>, leaves D's row and D's subvolume as they were, and
\* leaves no key of C; no subvolume is on C.
C10_DeleteLeaf ==
    (PassDone /\ hist.mode = "quiet") =>
        \A C \in SnapIds, D \in SnapIds :
            (/\ S3Start(C, D)
             /\ hist.snaps0[D].SUBVOL
             /\ \E v \in SubvolIds :
                   IsSubvolume(hist.subs0, v) /\ hist.subs0[v].snapshot = D)
            => S3End(C, D)

\* Such a pass has ended, and C had a key when it started.
C10_Witness ==
    /\ PassDone
    /\ hist.mode = "quiet"
    /\ \E C \in SnapIds, D \in SnapIds :
          /\ S3Start(C, D)
          /\ hist.snaps0[D].SUBVOL
          /\ \E v \in SubvolIds :
                IsSubvolume(hist.subs0, v) /\ hist.subs0[v].snapshot = D
          /\ \E k \in hist.keys0 : k.snapshot = C

\* Instances of the job: the queued work item and the running work
\* function.
JobInstances ==
    (IF pending THEN 1 ELSE 0) + (IF job.pc # "idle" THEN 1 ELSE 0)

\* C13: the references on c->writes held for reclamation are as many as
\* the queued plus the running instances of the job, and a call of
\* bch2_delete_dead_snapshots while the work item is queued leaves their
\* number as it was.
C13_RefsMatchInstances ==
    /\ writes = JobInstances
    /\ pending => bch2_delete_dead_snapshots(pending, writes).writes = writes

\* C14: the job runs holding a reference on c->writes taken for it, and the
\* count of references is never put below what was taken.
C14_JobHoldsRef ==
    /\ job.pc # "idle" => writes >= 1
    /\ writes >= 0

\* The step commits the tombstone of a subvolume and marks its snapshot
\* DELETED.
TombstoneCommitted ==
    \E v \in SubvolIds :
        /\ IsSubvolume(subvolumes, v)
        /\ ~IsSubvolume(subvolumes', v)
        /\ snapshots'[subvolumes[v].snapshot].DELETED

C16_DeleteFlagMismatch ==
    \A v \in SubvolumeRows :
        LET flag == IF subvolumes[v].SNAP THEN 1 ELSE 0
            bad == bch2_subvolume_delete(snapshots, subvolumes, v, 1 - flag)
            any == bch2_subvolume_delete(snapshots, subvolumes, v, -1)
        IN  /\ bad.ret = "ENOENT"
            /\ bad.snaps = snapshots
            /\ bad.subs = subvolumes
            /\ ~bad.hook
            /\ any.ret = "OK"
            /\ ~IsSubvolume(any.subs, v)
            /\ any.hook

\* A snapshot subvolume and a subvolume that is not one: the delete of
\* either with the other's flag is refused.
C16_Witness ==
    \E v \in SubvolumeRows, w \in SubvolumeRows :
        /\ subvolumes[v].SNAP
        /\ ~subvolumes[w].SNAP
        /\ bch2_subvolume_delete(snapshots, subvolumes, v, 0).ret = "ENOENT"
        /\ bch2_subvolume_delete(snapshots, subvolumes, w, 1).ret = "ENOENT"

\* The ids bch2_subvolume_create needs: one, or two for a snapshot.
IdsNeeded(src) == IF src = 0 THEN 1 ELSE 2

\* No empty subvolume slot, or fewer ids than needed below the lowest row.
NoSpace(src) ==
    \/ \A id \in SubvolIds : IsSubvolume(subvolumes, id)
    \/ /\ SnapshotRows # {}
       /\ SetMin(SnapshotRows) - 1 < IdsNeeded(src)

\* C18: bch2_subvolume_create, fresh or from an existing source, returns
\* -ENOSPC when no subvolume slot is empty or fewer ids than it needs are
\* free below the lowest snapshot row, and then leaves every snapshot row
\* and subvolume row as it was.
C18_CreateNoSpace ==
    \A a \in CreateArgs, src \in {0} \cup SubvolumeRows :
        LET r == bch2_subvolume_create(snapshots, subvolumes, cache, a[1], src, a[2])
        IN  NoSpace(src) =>
              /\ r.ret = "ENOSPC"
              /\ r.snaps = snapshots
              /\ r.subs = subvolumes

\* A slot is empty and one id is free below the lowest row: a snapshot,
\* which needs two, is refused after its first row was prepared.
C18_Witness ==
    /\ SubvolumeRows # SubvolIds
    /\ SnapshotRows # {}
    /\ SetMin(SnapshotRows) = 2
    /\ \E src \in SubvolumeRows :
          bch2_subvolume_create(snapshots, subvolumes, cache, 100, src, FALSE).ret = "ENOSPC"


\* C20 as claimed: bch2_snapshot_invalid returns a reason exactly when the
\* key is outside [1, U32_MAX), or the value size is wrong, or
\* parent >= own id, or children[0] < children[1], or the children are
\* equal and not 0, or a child is >= own id.
C20_Claimed ==
    probe.fn = "bch2_snapshot_invalid" =>
        LET k == probe.k IN
        (probe.ret # "OK") <=>
            \/ k.inode # 0 \/ k.offset < 1 \/ k.offset >= SnapIdMax
            \/ ~k.val_ok
            \/ k.parent >= k.offset
            \/ k.children[1] < k.children[2]
            \/ (k.children[1] = k.children[2] /\ k.children[1] # 0)
            \/ \E i \in 1 .. 2 : k.children[i] >= k.offset

\* C20: bch2_snapshot_invalid returns a reason exactly when the key is
\* outside [1, U32_MAX] (key U32_MAX, the root snapshot's, is accepted), or
\* the value size is wrong, or parent is not 0 and parent <= own id, or
\* children[0] < children[1], or the children are equal and not 0, or a
\* child is >= own id; it returns ok for every other key.
C20_Validator ==
    probe.fn = "bch2_snapshot_invalid" =>
        LET k == probe.k IN
        (probe.ret # "OK") <=>
            \/ k.inode # 0 \/ k.offset < 1 \/ k.offset > SnapIdMax
            \/ ~k.val_ok
            \/ (k.parent # 0 /\ k.parent <= k.offset)
            \/ k.children[1] < k.children[2]
            \/ (k.children[1] = k.children[2] /\ k.children[1] # 0)
            \/ \E i \in 1 .. 2 : k.children[i] >= k.offset

\* The key U32_MAX with two children below it has been validated and
\* accepted.
C20_Witness ==
    /\ probe.fn = "bch2_snapshot_invalid"
    /\ probe.ret = "OK"
    /\ probe.k.offset = SnapIdMax
    /\ probe.k.children = <<2, 1>>

\* C17: when bch2_subvolume_delete has found the subvolume row and the
\* snapshot row it names is missing, so that bch2_snapshot_node_set_deleted
\* fails, the call returns an error.
C17_DeleteReportsFailure ==
    (/\ probe.fn = "bch2_subvolume_delete"
     /\ probe.snapid # 0
     /\ ~IsSnapshot(snapshots, probe.snapid))
        => probe.ret # "OK"

\* The row at id has its subvolume, parent and children as fsck wants
\* them: the subvolume exists and names the row exactly when SUBVOL is set,
\* the parent exists and lists the row, every child exists and names the
\* row as its parent.
SnapshotRowConsistent(id) ==
    LET s == snapshots[id] IN
    /\ IsSubvolume(subvolumes, s.subvol)
    /\ s.SUBVOL <=> subvolumes[s.subvol].snapshot = id
    /\ s.parent # 0 =>
          /\ IsSnapshot(snapshots, s.parent)
          /\ id \in {snapshots[s.parent].children[1], snapshots[s.parent].children[2]}
    /\ \A i \in 1 .. 2 :
          s.children[i] # 0 =>
              /\ IsSnapshot(snapshots, s.children[i])
              /\ snapshots[s.children[i]].parent = id

\* C19: bch2_fs_snapshots_check returns ok only when every snapshot row
\* has its subvolume, parent and children pointers right and every
\* subvolume row names a snapshot row that exists.
C19_CheckReportsFailures ==
    (probe.fn = "bch2_fs_snapshots_check" /\ probe.ret = "OK") =>
        /\ \A id \in SnapshotRows : SnapshotRowConsistent(id)
        /\ \A v \in SubvolumeRows : IsSnapshot(snapshots, subvolumes[v].snapshot)

\* What the first loop of bch2_fs_snapshots_check does report: a snapshot
\* row with a wrong pointer.
SnapshotFailuresReported ==
    (probe.fn = "bch2_fs_snapshots_check" /\ probe.ret = "OK") =>
        \A id \in SnapshotRows : SnapshotRowConsistent(id)

\* C11: while a pass of the job runs with no foreground operation
\* committing, then at every point between two of its transactions where
\* a row is DELETED, so that the next mount restarts the job, a crash,
\* that mount and the restarted job run to its end leave the snapshot rows
\* and the keys that the job run without interruption from the start of
\* the pass leaves, and the subvolume rows are those of the start; the
\* pass itself, when it reaches its end, has left just these rows and
\* keys.
C11_ResumeEqualsUninterrupted ==
    hist.still =>
        /\ subvolumes = hist.subs0
        /\ (/\ job.pc \in {"detect", "equiv", "collect", "sweep", "remove"}
            /\ DeletedIds(snapshots) # {}) =>
              Resumed = Uninterrupted
        /\ job.pc = "exit" =>
              [ret |-> job.ret, snaps |-> snapshots, keys |-> keys] = Uninterrupted

\* A pass is in its last loop, has removed a row and has one more to
\* remove, after a key sweep that deleted a key: a crash here leaves the
\* rest to the next mount.
C11_Witness ==
    /\ hist.still
    /\ job.pc = "remove"
    /\ job.i > 1
    /\ job.i <= Len(job.deleted)
    /\ keys # hist.keys0

\* C12: when a pass has run to its end without error and with no foreground
\* operation committing, the job run once more right away changes no
\* snapshot row and no key; it never writes a subvolume row.
C12_SecondPassNoChange ==
    (PassDone /\ hist.still) =>
        bch2_delete_dead_snapshots_work(snapshots, cache, keys)
            = [ret |-> "OK", snaps |-> snapshots, keys |-> keys]

\* A pass that deleted keys and removed rows has ended, and rows and keys
\* are left for a second pass to walk.
C12_Witness ==
    /\ PassDone
    /\ hist.still
    /\ snapshots # hist.snaps0
    /\ keys # hist.keys0
    /\ keys # {}
    /\ Cardinality(SnapshotRows) >= 2

\* The children of the row at id whose row is present and not DELETED.
LiveChildren(snaps, id) ==
    {c \in {snaps[id].children[1], snaps[id].children[2]} :
        IsSnapshot(snaps, c) /\ ~snaps[c].DELETED}

\* C21: after bch2_snapshots_set_equiv, a row with exactly one child whose
\* row is present and not DELETED has that child's equiv, whichever of the
\* two positions a missing child is at, and every other row has its own id;
\* hence equiv is idempotent.
C21_EquivOfLiveChild ==
    probe.fn = "bch2_snapshots_set_equiv" =>
        \A id \in SnapshotRows :
            /\ \A c \in LiveChildren(snapshots, id) :
                  LiveChildren(snapshots, id) = {c} => cache[id].equiv = cache[c].equiv
            /\ Cardinality(LiveChildren(snapshots, id)) # 1 => cache[id].equiv = id
            /\ cache[cache[id].equiv].equiv = cache[id].equiv

\* C21 on rows whose children are all present: the case a consistent tree
\* is in.
EquivOfLiveChildWhenPresent ==
    probe.fn = "bch2_snapshots_set_equiv" =>
        \A id \in SnapshotRows :
            (\A i \in 1 .. 2 : snapshots[id].children[i] # 0 =>
                                  IsSnapshot(snapshots, snapshots[id].children[i])) =>
                /\ \A c \in LiveChildren(snapshots, id) :
                      LiveChildren(snapshots, id) = {c} => cache[id].equiv = cache[c].equiv
                /\ Cardinality(LiveChildren(snapshots, id)) # 1 => cache[id].equiv = id

\* The keys of ks at the position of k whose snapshot has the equiv of k's.
SameVersion(ks, k) ==
    {o \in ks : /\ o.btree = k.btree
                /\ o.pos = k.pos
                /\ cache[o.snapshot].equiv = cache[k.snapshot].equiv}

\* The key the sweep is at.
SweepKey == PeekKey(keys, job.btree, job.kpos)

\* C22: every step of the key sweep deletes the key it is at exactly when
\* the key's snapshot is in the list of deleted ids or a key of the same
\* position and the same equiv with a lower snapshot id was visited and
\* retained; when the sweep has ended, each position holds at most one key
\* of each equiv, and it is the key with the lowest snapshot id among the
\* keys of that position and equiv the sweep started with whose snapshot is
\* not in the list.
C22_SweepOnePerVersion ==
    /\ [][(job.pc = "sweep" /\ SweepKey # NoKey) =>
             (SweepKey \notin keys' <=>
                 \/ snapshot_list_has_id(job.deleted, SweepKey.snapshot)
                 \/ \E o \in SameVersion(keys, SweepKey) :
                       /\ o.snapshot < SweepKey.snapshot
                       /\ ~snapshot_list_has_id(job.deleted, o.snapshot))]_vars
    /\ [](job.pc = "remove" =>
             \A k \in hist.keys0 :
                 LET kept == {o \in SameVersion(hist.keys0, k) :
                                 ~snapshot_list_has_id(job.deleted, o.snapshot)}
                 IN  SameVersion(keys, k) =
                         {o \in kept : \A p \in kept : o.snapshot <= p.snapshot})

\* The sweep has ended: at one position it deleted a key of a DELETED
\* snapshot and a key whose equiv a lower snapshot's key had, at the other
\* position it retained the key of the same snapshot.
C22_Witness ==
    /\ job.pc = "remove"
    /\ \E k \in hist.keys0 \ keys, o \in keys, d \in hist.keys0 \ keys, s \in keys :
          /\ ~snapshot_list_has_id(job.deleted, k.snapshot)
          /\ o.pos = k.pos
          /\ o.snapshot < k.snapshot
          /\ cache[o.snapshot].equiv = cache[k.snapshot].equiv
          /\ snapshot_list_has_id(job.deleted, d.snapshot)
          /\ s.snapshot = k.snapshot
          /\ s.pos # k.pos

\* The first walk of the pass has ended without error and no row was
\* removed yet.
DetectDone == job.pc \in {"equiv", "collect", "sweep"}

\* C23: when the first walk of a pass has ended without error and no
\* bch2_subvolume_create and no bch2_subvolume_delete committed since the
\* pass started, every row that is neither DELETED nor SUBVOL has a child
\* whose row is present and not DELETED.
C23_NoDeadInteriorNode ==
    (DetectDone /\ hist.mode = "quiet") =>
        \A id \in SnapshotRows :
            ~(snapshots[id].DELETED \/ snapshots[id].SUBVOL) =>
                LiveChildren(snapshots, id) # {}

\* The first walk has marked a chain: a row that is not a leaf and its
\* parent, both without SUBVOL and not DELETED when the pass started.
C23_Witness ==
    /\ DetectDone
    /\ hist.mode = "quiet"
    /\ \E id \in SnapshotRows :
          LET p == snapshots[id].parent IN
          /\ snapshots[id].children # <<0, 0>>
          /\ snapshots[id].DELETED
          /\ ~hist.snaps0[id].DELETED
          /\ p # 0
          /\ snapshots[p].DELETED
          /\ ~hist.snaps0[p].DELETED

\* C24: bch2_subvolume_create of a snapshot whose parent row has a child
\* returns -EINVAL (a subvolume slot is free and two ids lie below the
\* lowest row), and the snapshots and subvolumes btrees keep every row:
\* neither the parent nor a new row is written.
C24_ParentHasChildren ==
    (/\ probe.fn = "bch2_subvolume_create"
     /\ IsSnapshot(hist.snaps0, probe.parent)
     /\ hist.snaps0[probe.parent].children # <<0, 0>>)
        => /\ probe.ret = "EINVAL"
           /\ snapshots = hist.snaps0
           /\ subvolumes = hist.subs0

\* A snapshot of a subvolume on a row that has a child was asked for and
\* refused, after the in-core table took the two new ids.
C24_Witness ==
    /\ probe.fn = "bch2_subvolume_create"
    /\ IsSnapshot(hist.snaps0, probe.parent)
    /\ hist.snaps0[probe.parent].children = <<SnapIdMax - 1, 0>>
    /\ probe.ret = "EINVAL"
    /\ \E id \in SnapIds : ~IsSnapshot(snapshots, id) /\ cache[id].subvol # 0

\* C25: when bch2_mark_snapshot fails with -ENOMEM while
\* bch2_subvolume_create prepares a new snapshot row, the call returns
\* -ENOMEM, for a new subvolume and for a snapshot; the parent is not
\* linked, no snapshot id is returned and no row is written.
C25_NoMemReturned ==
    probe.fn = "bch2_subvolume_create, ENOMEM" =>
        /\ probe.ret = "ENOMEM"
        /\ ~probe.linked
        /\ probe.new_snapshotid = 0
        /\ snapshots = hist.snaps0
        /\ subvolumes = hist.subs0

\* The half of C25 about a new subvolume that is no snapshot.
NoMemReturnedWithoutParent ==
    (probe.fn = "bch2_subvolume_create, ENOMEM" /\ probe.parent = 0) =>
        /\ probe.ret = "ENOMEM"
        /\ snapshots = hist.snaps0
        /\ subvolumes = hist.subs0

\* The in-core slot of id holds what bch2_mark_snapshot takes from the
\* committed row of id: parent, children and, with SUBVOL, subvol; zeroes
\* when there is no row.
SlotMatchesRow(id) ==
    LET row == snapshots[id] IN
    IF IsSnapshot(snapshots, id)
    THEN /\ cache[id].parent = row.parent
         /\ cache[id].children = row.children
         /\ cache[id].subvol = IF row.SUBVOL THEN row.subvol ELSE 0
    ELSE /\ cache[id].parent = 0
         /\ cache[id].children = <<0, 0>>
         /\ cache[id].subvol = 0

\* C26: after every transaction, committed or not, every in-core slot
\* holds the parent, children and subvol of the committed row of its id,
\* and zeroes for an id without a row.
C26_CacheMatchesRows == \A id \in SnapIds : SlotMatchesRow(id)

\* What does hold: the slot of every row that is present matches it.
CacheMatchesPresentRows == \A id \in SnapshotRows : SlotMatchesRow(id)

\* C27: in every state a DELETED row has no child whose row is present and
\* not DELETED, and every row's parent, when it names one, is present.
C27_DeletedHasNoLiveChild ==
    \A id \in SnapshotRows :
        /\ snapshots[id].DELETED => LiveChildren(snapshots, id) = {}
        /\ snapshots[id].parent # 0 => IsSnapshot(snapshots, snapshots[id].parent)

\* The last loop has removed a row while the row of its DELETED parent and
\* that of a row under another parent remain.
C27_Witness ==
    /\ job.pc = "remove"
    /\ job.i > 1
    /\ \E id \in SnapshotRows, o \in SnapshotRows :
          /\ snapshots[id].DELETED
          /\ snapshots[id].children # <<0, 0>>
          /\ snapshots[o].parent # 0
          /\ snapshots[o].parent # id

\* The snapshot ids a successful create hands out: the new subvolume's, and
\* for a snapshot also the one the source subvolume moves to.
CreatedSnapIds(r, src_subvolid) ==
    IF src_subvolid = 0 THEN <<r.new_snapshotid>>
    ELSE <<r.new_snapshotid, r.subs[src_subvolid].snapshot>>

C29_CheckPasses == bch2_fs_snapshots_check(snapshots, subvolumes) = "OK"

(* ------------------------------------------------------------------ *)
(* The worker under fair scheduling                                    *)
(* ------------------------------------------------------------------ *)

\* The steps of the work item on system_long_wq: taking the queued item,
\* the iterations of the job's loops, the exit.
Worker ==
    \/ WorkStart
    \/ DetectStep
    \/ EquivStep
    \/ CollectStep
    \/ SweepStep
    \/ RemoveStep
    \/ WorkExit

\* The number of foreground calls in a run of the fair specification.
MaxLiveOps == 4

\* The filesystem stays mounted and writable: creates, deletes and writes
\* in the foreground, the worker beside them, no shutdown and no mount.
NextLive ==
    \/ \E a \in CreateArgs, src \in {0} \cup SubvolIds :
          ops < MaxLiveOps /\ SubvolumeCreate(a[1], src, a[2])
    \/ \E subvolid \in SubvolIds, deleting_snapshot \in {-1, 0, 1} :
          ops < MaxLiveOps /\ SubvolumeDelete(subvolid, deleting_snapshot)
    \/ \E btree \in SnapshotBtrees, pos \in Positions, subvol \in SubvolIds :
          ops < MaxLiveOps /\ KeyWrite(btree, pos, subvol)
    \/ Worker

\* The workqueue runs a queued item and a running job goes on: a step of
\* the worker that stays possible is eventually taken.
SpecLive == Init /\ [][NextLive]_vars /\ WF_vars(Worker)

DeletedRow(id) == IsSnapshot(snapshots, id) /\ snapshots[id].DELETED

\* C30: a queued work item leads to a job entering its first walk, and a
\* row that is DELETED leads to that row being gone.
C30_DeletedRowRemoved ==
    /\ pending ~> (job.pc = "detect")
    /\ \A id \in SnapIds : DeletedRow(id) ~> ~DeletedRow(id)

\* A delete has committed while the job was past its walk for DELETED
\* rows: the work item is queued again, and the row the delete marked is
\* not in the running job's list.
C30_Witness ==
    /\ job.pc \in {"sweep", "remove"}
    /\ pending
    /\ \E id \in SnapIds :
          /\ DeletedRow(id)
          /\ \A j \in 1..Len(job.deleted) : job.deleted[j] # id

====
